---------------------------- MODULE Spec2Model ----------------------------
(***************************************************************************)
(* Model of the post-generation pipeline of the iOS Hello World template   *)
(* (hooks/post_gen_project.py), of the validator it calls                  *)
(* (scripts/validator.py) and of the environment probe                     *)
(* (scripts/version_detector.py).                                          *)
(*                                                                         *)
(* Strings are sequences of one-character strings, so that substring       *)
(* replacement, regular-expression matching and lower-casing are computed  *)
(* character by character as the Python code computes them.                *)
(***************************************************************************)
EXTENDS Integers, Sequences, FiniteSets, TLC

VARIABLES
    pc,             \* the position of main / of the call under study
    context,        \* the handoff context: key -> string, for the keys present
    env,            \* what the host answers to each probe
    useFallback,    \* the hook's imports failed: fallback validate_template_inputs
    result,         \* the last returned (is_valid, errors, warnings)
    report,         \* the values version_detector detected
    old_name,       \* rename_xcode_project_references' old_name / main's old_name
    new_name,       \* rename_xcode_project_references' new_name / main's new_name
    organization_identifier,    \* main's local
    minimum_ios_version,        \* main's local
    fs,             \* the project tree on disk
    fs0,            \* the tree before the first transformation (history)
    fs1,            \* the tree after the first rename run (history)
    runs,           \* calls of rename_xcode_project_references so far
    faultLog,       \* the I/O faults the environment injected, one entry per step
    raised,         \* an exception escaped the last call
    exitStatus,     \* the process's exit status, -1 while it runs
    validator,      \* the errors / warnings lists of one iOSTemplateValidator
    returned        \* the triples returned so far, as their lists read now

vars == <<pc, context, env, useFallback, result, report, old_name, new_name,
          organization_identifier, minimum_ios_version, fs, fs0, fs1, runs,
          faultLog, raised, exitStatus, validator, returned>>

(***************************************************************************)
(* Bounds of the model.                                                    *)
(***************************************************************************)
MaxNameLen == 2       \* longest old_name / new_name / scheme stem (SpecRename)
MaxContentLen == 3    \* longest file content (SpecRename)
MaxFiles == 2         \* most scheme files in the schemes directory
MaxLines == 2         \* most lines of project.pbxproj (Spec)
MaxVersionLen == 4    \* longest version string (SpecVersion)
MaxRuns == 2          \* most validation runs in a row (SpecReuse)

(***************************************************************************)
(* Strings.                                                                *)
(***************************************************************************)
Alphabet == {"a", "b"}

\* All strings over Alphabet of length lo..hi.
StringsOver(A, lo, hi) == UNION {[1..n -> A] : n \in lo..hi}

\* s[i..] starts with p (1-based), as str.startswith / a literal match at i.
MatchAt(s, p, i) ==
    /\ i + Len(p) - 1 <= Len(s)
    /\ SubSeq(s, i, i + Len(p) - 1) = p

StartsWith(s, p) == MatchAt(s, p, 1)

EndsWith(s, p) == Len(p) <= Len(s) /\ MatchAt(s, p, Len(s) - Len(p) + 1)

\* Python's `p in s`.
Contains(s, p) == \E i \in 1..(Len(s) + 1) : MatchAt(s, p, i)

\* Python's str.replace(old, new): leftmost, non-overlapping occurrences, one
\* pass over the ORIGINAL text (the inserted text is never rescanned).  With an
\* empty `old`, `new` is inserted before every character and at the end.
\* NextOccurrence is the leftmost position >= i at which p occurs in s, 0 when
\* there is none.
NextOccurrence(s, p, i) ==
    LET hits == {j \in i..Len(s) : MatchAt(s, p, j)}
    IN  IF hits = {} THEN 0 ELSE CHOOSE j \in hits : \A k \in hits : j <= k

RECURSIVE ReplaceFrom(_, _, _, _)
ReplaceFrom(s, old, new, i) ==
    LET j == NextOccurrence(s, old, i)
    IN  IF j = 0 THEN SubSeq(s, i, Len(s))
        ELSE SubSeq(s, i, j - 1) \o new \o ReplaceFrom(s, old, new, j + Len(old))

RECURSIVE Interleave(_, _, _)
Interleave(s, new, i) ==
    IF i > Len(s) THEN new ELSE new \o <<s[i]>> \o Interleave(s, new, i + 1)

StrReplace(s, old, new) ==
    IF old = <<>> THEN Interleave(s, new, 1) ELSE ReplaceFrom(s, old, new, 1)

(***************************************************************************)
(* The project tree.                                                       *)
(*   desc    : the descriptor files that exist at the paths computed from  *)
(*             new_name ("pbx" = <new>.xcodeproj/project.pbxproj, "ws" =   *)
(*             .../project.xcworkspace/contents.xcworkspacedata) -> content*)
(*   hasDir  : <new>.xcodeproj/xcshareddata/xcschemes exists               *)
(*   schemes : filename -> content of the files of that directory          *)
(*   other   : path -> content of the remaining files of the tree          *)
(*   handoff : cookiecutter_context.json exists                            *)
(*   requirements : REQUIREMENTS.md exists                                 *)
(***************************************************************************)
XCSCHEME == <<".", "x", "c", "s", "c", "h", "e", "m", "e">>

\* The pattern f"*{old_name}*.xcscheme": old_name anywhere in the filename.
GlobMatchesAnywhere(name, old) ==
    /\ Contains(name, old)
    /\ EndsWith(name, XCSCHEME)

\* Path.glob(f"{old_name}*.xcscheme") on a filename: the literal prefix, any
\* run of characters, the literal suffix.
GlobMatches(name, old) ==
    /\ StartsWith(name, old)
    /\ EndsWith(name, XCSCHEME)
    /\ Len(name) >= Len(old) + Len(XCSCHEME)

\* The faults the environment can inject into one call: none, or one failing
\* file operation.  k is the position in the glob loop for the scheme operations.
NoFault == [op |-> "none", k |-> 0]
RenameFaults ==
    {NoFault, [op |-> "replace_pbx", k |-> 0], [op |-> "replace_ws", k |-> 0]}
      \cup {[op |-> o, k |-> k] : o \in {"move", "replace_scheme"}, k \in 1..MaxFiles}

\* replace_in_file on a content: the whole body is inside try/except Exception,
\* so a failing open/read/write leaves the content as it was and raises nothing.
replace_in_file(content, old, new, fails) ==
    IF fails THEN content ELSE StrReplace(content, old, new)

\* The first loop of rename_xcode_project_references.
UpdateDescriptors(desc, old, new, flt) ==
    [p \in DOMAIN desc |->
        replace_in_file(desc[p], old, new,
                        (p = "pbx" /\ flt.op = "replace_pbx")
                          \/ (p = "ws" /\ flt.op = "replace_ws"))]

\* A copy in place of the move: dst is written and src stays.
MoveKeepingSource(files, src, dst) ==
    [n \in DOMAIN files \cup {dst} |-> IF n = dst THEN files[src] ELSE files[n]]

\* shutil.move(src, dst) on the directory's files: dst is created or overwritten
\* with src's content and src is gone (src = dst leaves the directory as it is).
Move(files, src, dst) ==
    [n \in (DOMAIN files \ {src}) \cup {dst} |->
        IF n = dst THEN files[src] ELSE files[n]]

\* The scheme loop over the glob's matches in the order `order`, from position k.
\* A failing shutil.move is not caught: the loop stops and the exception leaves
\* the function.
RECURSIVE SchemeLoop(_, _, _, _, _, _)
SchemeLoop(files, order, k, old, new, flt) ==
    IF k > Len(order) THEN [files |-> files, raised |-> FALSE]
    ELSE LET scheme_file == order[k]
             new_scheme_name == StrReplace(scheme_file, old, new)
         IN  IF flt.op = "move" /\ flt.k = k
             THEN [files |-> files, raised |-> TRUE]
             ELSE LET moved == Move(files, scheme_file, new_scheme_name)
                      updated == [moved EXCEPT ![new_scheme_name] =
                                     replace_in_file(@, old, new,
                                        flt.op = "replace_scheme" /\ flt.k = k)]
                  IN  SchemeLoop(updated, order, k + 1, old, new, flt)

\* The orders in which the glob can yield the set S of matching filenames.
Orders(S) ==
    {o \in [1..Cardinality(S) -> S] : \A i, j \in 1..Cardinality(S) : i # j => o[i] # o[j]}

MatchingSchemes(tree, old) ==
    IF tree.hasDir THEN {n \in DOMAIN tree.schemes : GlobMatches(n, old)} ELSE {}

\* rename_xcode_project_references(project_dir, old_name, new_name) on the tree,
\* with the glob yielding its matches in `order` and the fault flt injected.
rename_xcode_project_references(tree, old, new, order, flt) ==
    LET desc == UpdateDescriptors(tree.desc, old, new, flt)
        loop == SchemeLoop(tree.schemes, order, 1, old, new, flt)
    IN  [fs |-> [tree EXCEPT !.desc = desc, !.schemes = loop.files],
         raised |-> loop.raised]

(***************************************************************************)
(* Character classes and conversions of the validator's regular            *)
(* expressions.  "ARABIC3" stands for the one character U+0663, a decimal   *)
(* digit for \d and for int() but not for [0-9].                           *)
(***************************************************************************)
LOWER_SEQ == <<"a", "b", "c", "d", "e", "f", "g", "h", "i", "j", "k", "l", "m", "n", "o", "p", "q", "r", "s", "t", "u", "v", "w", "x", "y", "z">>
UPPER_SEQ == <<"A", "B", "C", "D", "E", "F", "G", "H", "I", "J", "K", "L", "M", "N", "O", "P", "Q", "R", "S", "T", "U", "V", "W", "X", "Y", "Z">>
DIGIT_SEQ == <<"0", "1", "2", "3", "4", "5", "6", "7", "8", "9">>
LOWER == {LOWER_SEQ[i] : i \in 1..Len(LOWER_SEQ)}
UPPER == {UPPER_SEQ[i] : i \in 1..Len(UPPER_SEQ)}
ASCII_DIGITS == {DIGIT_SEQ[i] : i \in 1..Len(DIGIT_SEQ)}
LETTERS == LOWER \cup UPPER
RE_DIGITS == ASCII_DIGITS \cup {"ARABIC3"}
WHITESPACE == {" ", "\n", "\t"}

\* str.lower(), character by character.
LowerChar(c) ==
    IF c \in UPPER THEN LOWER_SEQ[CHOOSE i \in 1..Len(UPPER_SEQ) : UPPER_SEQ[i] = c] ELSE c

Lower(s) == [i \in 1..Len(s) |-> LowerChar(s[i])]

AllIn(s, cls) == \A i \in 1..Len(s) : s[i] \in cls

\* str.strip(): leading and trailing whitespace removed.
RECURSIVE LStrip(_)
LStrip(s) == IF s # <<>> /\ s[1] \in WHITESPACE THEN LStrip(Tail(s)) ELSE s
RECURSIVE RStrip(_)
RStrip(s) ==
    IF s # <<>> /\ s[Len(s)] \in WHITESPACE THEN RStrip(SubSeq(s, 1, Len(s) - 1)) ELSE s
Strip(s) == RStrip(LStrip(s))

\* str.split(sep) for a one-character separator.
RECURSIVE SplitFrom(_, _, _, _)
SplitFrom(s, sep, i, cur) ==
    IF i > Len(s) THEN <<cur>>
    ELSE IF s[i] = sep THEN <<cur>> \o SplitFrom(s, sep, i + 1, <<>>)
         ELSE SplitFrom(s, sep, i + 1, Append(cur, s[i]))
Split(s, sep) == SplitFrom(s, sep, 1, <<>>)

DigitValue(c) ==
    IF c = "ARABIC3" THEN 3 ELSE (CHOOSE i \in 1..Len(DIGIT_SEQ) : DIGIT_SEQ[i] = c) - 1

\* int(s) for a string of decimal digits with surrounding whitespace.
RECURSIVE DigitsToInt(_, _)
DigitsToInt(s, acc) ==
    IF s = <<>> THEN acc ELSE DigitsToInt(Tail(s), 10 * acc + DigitValue(s[1]))
ToInt(s) == DigitsToInt(Strip(s), 0)

\* re.match(r'^...$', s): `$` matches at the end and also just before a final
\* newline, so the pattern between ^ and $ may match s or s less that newline.
ToDollar(s) ==
    {s} \cup (IF s # <<>> /\ s[Len(s)] = "\n" THEN {SubSeq(s, 1, Len(s) - 1)} ELSE {})

(***************************************************************************)
(* iOSTemplateValidator: every validate_* returns what it appends to       *)
(* self.errors and self.warnings, and its return value.                    *)
(***************************************************************************)
Verdict(ok, errs, warns) == [ok |-> ok, errors |-> errs, warnings |-> warns]

\* ^[A-Za-z][A-Za-z0-9_]*
ProjectNameCore(s) ==
    /\ s # <<>>
    /\ s[1] \in LETTERS
    /\ AllIn(Tail(s), LETTERS \cup ASCII_DIGITS \cup {"_"})

reserved_words == {<<"i", "o", "s">>, <<"s", "w", "i", "f", "t">>, <<"x", "c", "o", "d", "e">>, <<"c", "o", "c", "o", "a">>, <<"a", "p", "p">>, <<"t", "e", "s", "t">>, <<"m", "a", "i", "n">>}

MaxProjectNameLen == 50
MaxOrgIdLen == 100

validate_project_name(name) ==
    IF name = <<>> THEN Verdict(FALSE, <<"Project name cannot be empty">>, <<>>)
    ELSE IF ~(\E t \in ToDollar(name) : ProjectNameCore(t))
    THEN Verdict(FALSE, <<"Project name must start with a letter and contain only letters, numbers, and underscores">>, <<>>)
    ELSE IF Len(name) > MaxProjectNameLen
    THEN Verdict(FALSE, <<"Project name must be 50 characters or less">>, <<>>)
    ELSE Verdict(TRUE, <<>>,
                 IF Lower(name) \in reserved_words
                 THEN <<"Project name might conflict with iOS reserved words">>
                 ELSE <<>>)

\* [a-z][a-z0-9_]* for one dot-separated segment
OrgSegment(seg) ==
    /\ seg # <<>>
    /\ seg[1] \in LOWER
    /\ AllIn(Tail(seg), LOWER \cup ASCII_DIGITS \cup {"_"})

\* ^[a-z][a-z0-9_]*(\.[a-z][a-z0-9_]*)*
OrgIdCore(s) ==
    LET segs == Split(s, ".") IN \A i \in 1..Len(segs) : OrgSegment(segs[i])

validate_organization_identifier(org_id) ==
    IF org_id = <<>> THEN Verdict(FALSE, <<"Organization identifier cannot be empty">>, <<>>)
    ELSE IF ~(\E t \in ToDollar(org_id) : OrgIdCore(t))
    THEN Verdict(FALSE, <<"Organization identifier must follow iOS bundle naming conventions (e.g., com.example)">>, <<>>)
    ELSE IF Len(org_id) > MaxOrgIdLen
    THEN Verdict(FALSE, <<"Organization identifier must be 100 characters or less">>, <<>>)
    ELSE Verdict(TRUE, <<>>, <<>>)

\* \d+\.\d+
VersionCore(s) ==
    \E i \in 2..(Len(s) - 1) :
        /\ s[i] = "."
        /\ AllIn(SubSeq(s, 1, i - 1), RE_DIGITS)
        /\ AllIn(SubSeq(s, i + 1, Len(s)), RE_DIGITS)

MinMajor == 13
MaxMajor == 18

\* The except ValueError branch cannot be taken: every string the pattern
\* accepts splits into two parts int() converts.
validate_ios_version(version) ==
    IF version = <<>> THEN Verdict(FALSE, <<"iOS version cannot be empty">>, <<>>)
    ELSE IF ~(\E t \in ToDollar(version) : VersionCore(t))
    THEN Verdict(FALSE, <<"iOS version must be in format X.Y (e.g., 15.0)">>, <<>>)
    ELSE LET major == ToInt(Split(version, ".")[1])
         IN  Verdict(TRUE, <<>>,
                     IF major < MinMajor \/ major > MaxMajor
                     THEN <<"iOS version should be between 13.0 and 18.0 for best compatibility">>
                     ELSE <<>>)

\* [a-zA-Z0-9._%+-]+@[a-zA-Z0-9.-]+\.[a-zA-Z]{2,}
EmailCore(s) ==
    \E i \in 2..Len(s), j \in 3..Len(s) :
        /\ i + 1 < j
        /\ s[i] = "@"
        /\ s[j] = "."
        /\ AllIn(SubSeq(s, 1, i - 1), LETTERS \cup ASCII_DIGITS \cup {".", "_", "%", "+", "-"})
        /\ AllIn(SubSeq(s, i + 1, j - 1), LETTERS \cup ASCII_DIGITS \cup {".", "-"})
        /\ Len(s) - j >= 2
        /\ AllIn(SubSeq(s, j + 1, Len(s)), LETTERS)

validate_email(email) ==
    IF email = <<>>
    THEN Verdict(TRUE, <<>>, <<"Email address is empty (optional but recommended)">>)
    ELSE IF ~(\E t \in ToDollar(email) : EmailCore(t))
    THEN Verdict(FALSE, <<"Invalid email address format">>, <<>>)
    ELSE Verdict(TRUE, <<>>, <<>>)

\* (-[a-zA-Z0-9.-]+)?(\+[a-zA-Z0-9.-]+)? on what follows MAJOR.MINOR.PATCH
SemverSuffix(r) ==
    LET cls == LETTERS \cup ASCII_DIGITS \cup {".", "-"}
        Build(b) == b = <<>> \/ (b[1] = "+" /\ Len(b) >= 2 /\ AllIn(Tail(b), cls))
    IN  \/ Build(r)
        \/ /\ r # <<>>
           /\ r[1] = "-"
           /\ \E k \in 2..Len(r) :
                 /\ AllIn(SubSeq(r, 2, k), cls)
                 /\ Build(SubSeq(r, k + 1, Len(r)))

\* \d+\.\d+\.\d+(-[a-zA-Z0-9.-]+)?(\+[a-zA-Z0-9.-]+)?
SemverCore(s) ==
    \E a \in 2..Len(s), b \in 4..Len(s), c \in 5..Len(s) :
        /\ a + 1 < b
        /\ b < c
        /\ s[a] = "."
        /\ s[b] = "."
        /\ AllIn(SubSeq(s, 1, a - 1), RE_DIGITS)
        /\ AllIn(SubSeq(s, a + 1, b - 1), RE_DIGITS)
        /\ AllIn(SubSeq(s, b + 1, c), RE_DIGITS)
        /\ SemverSuffix(SubSeq(s, c + 1, Len(s)))

validate_version_name(version) ==
    IF version = <<>> THEN Verdict(FALSE, <<"Version name cannot be empty">>, <<>>)
    ELSE Verdict(TRUE, <<>>,
                 IF ~(\E t \in ToDollar(version) : SemverCore(t))
                 THEN <<"Version name should follow semantic versioning (e.g., 1.0.0)">>
                 ELSE <<>>)

validate_swift_data_choice(choice) ==
    IF Lower(choice) \notin {<<"t", "r", "u", "e">>, <<"f", "a", "l", "s", "e">>}
    THEN Verdict(FALSE, <<"SwiftData choice must be 'true' or 'false'">>, <<>>)
    ELSE Verdict(TRUE, <<>>, <<>>)

(***************************************************************************)
(* External commands.  An outcome of one invocation is                     *)
(*   [kind |-> "notfound"]  the executable does not exist                  *)
(*   [kind |-> "timeout"]   the 10 s timeout expired                       *)
(*   [kind |-> "exit"]      it ran and exited with status rc, printing out *)
(***************************************************************************)
NotFound == [kind |-> "notfound", rc |-> 127, out |-> <<>>]
TimedOut == [kind |-> "timeout", rc |-> 0, out |-> <<>>]
Exited(rc, out) == [kind |-> "exit", rc |-> rc, out |-> out]

\* The three fault outcomes of the specification: missing, timeout, non-zero exit.
Faulted(o) == o.kind \in {"notfound", "timeout"} \/ (o.kind = "exit" /\ o.rc # 0)

\* re.search(prefix + r'([^\s]+)', text).group(1), or <<>> when there is no match:
\* the leftmost occurrence of prefix followed by a non-whitespace character, and
\* the longest run of non-whitespace characters from there.
RECURSIVE NonSpaceRun(_, _)
NonSpaceRun(s, i) ==
    IF i > Len(s) \/ s[i] \in WHITESPACE THEN <<>> ELSE <<s[i]>> \o NonSpaceRun(s, i + 1)

SearchGroup(text, prefix) ==
    LET hits == {i \in 1..Len(text) :
                    /\ MatchAt(text, prefix, i)
                    /\ i + Len(prefix) <= Len(text)
                    /\ text[i + Len(prefix)] \notin WHITESPACE}
    IN  IF hits = {} THEN <<>>
        ELSE LET i == CHOOSE h \in hits : \A k \in hits : h <= k
             IN  NonSpaceRun(text, i + Len(prefix))

\* float(s) succeeds on the decimal literals digits[.digits] and .digits (the
\* forms a version number takes); any other text here raises ValueError.
IsFloatLiteral(s) ==
    LET parts == Split(s, ".")
    IN  /\ s # <<>>
        /\ AllIn(s, RE_DIGITS \cup {"."})
        /\ Len(parts) <= 2
        /\ \E k \in 1..Len(parts) : parts[k] # <<>>

\* The integer part of float(s) for such a literal.
FloatFloor(s) == ToInt(Split(s, ".")[1])

\* int(s) succeeds on a non-empty run of decimal digits.
IsIntLiteral(s) == Strip(s) # <<>> /\ AllIn(Strip(s), RE_DIGITS)

XCODE_PREFIX == <<"X", "c", "o", "d", "e", " ">>
SWIFT_PREFIX == <<"s", "w", "i", "f", "t", "-", "d", "r", "i", "v", "e", "r", " ", "v", "e", "r", "s", "i", "o", "n", ":", " ">>
HOMEBREW_PREFIX == <<"H", "o", "m", "e", "b", "r", "e", "w", " ">>

RecommendedXcode == 15
RecommendedMacOS == 13

(***************************************************************************)
(* iOSTemplateValidator.validate_environment, one operator per probed item.*)
(***************************************************************************)
Finding(errs, warns) == [errors |-> errs, warnings |-> warns]

\* Lines 120-142: subprocess.run(['xcodebuild', '-version'], timeout=10).
CheckXcode(o) ==
    IF o.kind \in {"timeout", "notfound"} THEN Finding(<<"Xcode is not installed">>, <<>>)
    ELSE IF o.rc = 0
    THEN LET version == SearchGroup(o.out, XCODE_PREFIX)
         IN  IF version # <<>> /\ IsFloatLiteral(version)
                           /\ FloatFloor(version) < RecommendedXcode
             THEN Finding(<<>>, <<"Xcode is older than recommended (15.0+)">>)
             ELSE Finding(<<>>, <<>>)
    ELSE Finding(<<"Xcode is not properly installed">>, <<>>)

\* Lines 145-149: the simulator's well-known path exists.
CheckSimulator(exists) ==
    IF exists THEN Finding(<<>>, <<>>) ELSE Finding(<<>>, <<"iOS Simulator not found">>)

\* Lines 152-168: subprocess.run(['sw_vers', '-productVersion'], timeout=10).
CheckMacOS(o) ==
    IF o.kind \in {"timeout", "notfound"}
    THEN Finding(<<>>, <<"Could not check macOS version">>)
    ELSE IF o.rc = 0
    THEN LET macos_version == Strip(o.out)
             major == Split(macos_version, ".")[1]
         IN  IF IsIntLiteral(major) /\ ToInt(major) < RecommendedMacOS
             THEN Finding(<<>>, <<"macOS is older than recommended (13.0+)">>)
             ELSE Finding(<<>>, <<>>)
    ELSE Finding(<<>>, <<"Could not determine macOS version">>)

\* Homebrew probed as a required tool: its absence reported as an error.
CheckHomebrewAsRequired(o) ==
    IF o.kind = "exit" /\ o.rc = 0 THEN Finding(<<>>, <<>>)
    ELSE Finding(<<"Homebrew is not installed">>, <<>>)

\* Lines 171-178: subprocess.run(['brew', '--version'], timeout=10).
CheckHomebrew(o) ==
    IF o.kind = "exit" /\ o.rc = 0 THEN Finding(<<>>, <<>>)
    ELSE Finding(<<>>, <<"Homebrew is not installed (recommended for package management)">>)

\* Lines 181-188: subprocess.run(['pod', '--version'], timeout=10).
CheckCocoaPods(o) ==
    IF o.kind = "exit" /\ o.rc = 0 THEN Finding(<<>>, <<>>)
    ELSE Finding(<<>>, <<"CocoaPods is not installed (optional dependency manager)">>)

\* validate_environment on a validator whose lists are `v`: the findings are
\* appended in the order of the checks.
validate_environment(v, e) ==
    LET fx == CheckXcode(e.xcode)
        fsim == CheckSimulator(e.sim)
        fm == CheckMacOS(e.mac)
        fb == CheckHomebrew(e.brew)
        fp == CheckCocoaPods(e.pod)
    IN  [errors |-> v.errors \o fx.errors \o fsim.errors \o fm.errors
                      \o fb.errors \o fp.errors,
         warnings |-> v.warnings \o fx.warnings \o fsim.warnings \o fm.warnings
                      \o fb.warnings \o fp.warnings]

(***************************************************************************)
(* iOSTemplateValidator.validate_all and validate_template_inputs.         *)
(***************************************************************************)
required_fields ==
    <<"project_name", "organization_identifier", "minimum_ios_version",
      "version_name", "use_swift_data">>

FieldValidator(field, value) ==
    CASE field = "project_name" -> validate_project_name(value)
      [] field = "organization_identifier" -> validate_organization_identifier(value)
      [] field = "minimum_ios_version" -> validate_ios_version(value)
      [] field = "version_name" -> validate_version_name(value)
      [] field = "use_swift_data" -> validate_swift_data_choice(value)

\* f"Required field '{field}' is missing"
MissingMessage(field) ==
    CASE field = "project_name" -> "Required field 'project_name' is missing"
      [] field = "organization_identifier" -> "Required field 'organization_identifier' is missing"
      [] field = "minimum_ios_version" -> "Required field 'minimum_ios_version' is missing"
      [] field = "version_name" -> "Required field 'version_name' is missing"
      [] field = "use_swift_data" -> "Required field 'use_swift_data' is missing"

\* The loop with no else branch: an absent field is passed over in silence.
RECURSIVE RequiredLoopSkippingAbsent(_, _, _)
RequiredLoopSkippingAbsent(v, ctx, k) ==
    IF k > Len(required_fields) THEN v
    ELSE LET field == required_fields[k]
             f == IF field \in DOMAIN ctx
                  THEN FieldValidator(field, ctx[field])
                  ELSE Verdict(TRUE, <<>>, <<>>)
         IN  RequiredLoopSkippingAbsent([errors |-> v.errors \o f.errors,
                                         warnings |-> v.warnings \o f.warnings],
                                        ctx, k + 1)

\* The loop over required_fields.items(), from position k.
RECURSIVE RequiredLoop(_, _, _)
RequiredLoop(v, ctx, k) ==
    IF k > Len(required_fields) THEN v
    ELSE LET field == required_fields[k]
             f == IF field \in DOMAIN ctx
                  THEN FieldValidator(field, ctx[field])
                  ELSE Verdict(FALSE, <<MissingMessage(field)>>, <<>>)
         IN  RequiredLoop([errors |-> v.errors \o f.errors,
                           warnings |-> v.warnings \o f.warnings], ctx, k + 1)

\* The value `passed` computed as "nothing at all was found".
PassedIfNoFindings(v) == v.errors = <<>> /\ v.warnings = <<>>

\* len(self.errors) == 0
Passed(v) == Len(v.errors) = 0

\* validate_all on a validator whose lists are `v`; returns the lists after the
\* call and the returned triple.
validate_all(v, ctx, e) ==
    LET v1 == RequiredLoop(v, ctx, 1)
        em == IF "author_email" \in DOMAIN ctx
              THEN validate_email(ctx["author_email"])
              ELSE Verdict(TRUE, <<>>, <<>>)
        v2 == [errors |-> v1.errors \o em.errors, warnings |-> v1.warnings \o em.warnings]
        v3 == validate_environment(v2, e)
    IN  [passed |-> Passed(v3), errors |-> v3.errors, warnings |-> v3.warnings]

FreshValidator == [errors |-> <<>>, warnings |-> <<>>]

\* validate_template_inputs of scripts/validator.py: a new validator per call.
validate_template_inputs(ctx, e) == validate_all(FreshValidator, ctx, e)

\* validate_template_inputs of the hook's except ImportError branch.
fallback_validate_template_inputs(ctx) ==
    [passed |-> TRUE, errors |-> <<>>, warnings |-> <<>>]

(***************************************************************************)
(* version_detector.py.                                                    *)
(***************************************************************************)
NOT_DETECTED == <<"N", "o", "t", " ", "d", "e", "t", "e", "c", "t", "e", "d">>
NOT_INSTALLED == <<"N", "o", "t", " ", "i", "n", "s", "t", "a", "l", "l", "e", "d">>
NOT_FOUND == <<"N", "o", "t", " ", "f", "o", "u", "n", "d">>
AVAILABLE == <<"A", "v", "a", "i", "l", "a", "b", "l", "e">>

\* run_command(command): subprocess.run(command, shell=True, timeout=10) and
\* result.stdout.strip().  None (timeout) and "" are both falsy for every caller,
\* so both are the empty string here.  With shell=True a missing executable is
\* the shell's exit status 127 with nothing on stdout, and the exit status is
\* never looked at.
run_command(o) ==
    IF o.kind = "timeout" THEN <<>>
    ELSE IF o.kind = "notfound" THEN <<>>
    ELSE Strip(o.out)

OrElse(value, sentinel) == IF value # <<>> THEN value ELSE sentinel

detect_xcode_version(o) == OrElse(SearchGroup(run_command(o), XCODE_PREFIX), NOT_DETECTED)
detect_swift_version(o) == OrElse(SearchGroup(run_command(o), SWIFT_PREFIX), NOT_DETECTED)
detect_ios_simulator(exists) == IF exists THEN AVAILABLE ELSE NOT_FOUND
detect_cocoapods(o) == OrElse(run_command(o), NOT_INSTALLED)
detect_homebrew(o) == OrElse(SearchGroup(run_command(o), HOMEBREW_PREFIX), NOT_INSTALLED)
detect_macos_version(o) == OrElse(run_command(o), NOT_DETECTED)

\* The detected values generate_requirements_md renders into the table.
DetectAll(e) ==
    [xcode |-> detect_xcode_version(e.xcode),
     swift |-> detect_swift_version(e.swift),
     sim |-> detect_ios_simulator(e.sim),
     pod |-> detect_cocoapods(e.pod),
     brew |-> detect_homebrew(e.brew),
     mac |-> detect_macos_version(e.mac)]

(***************************************************************************)
(* update_bundle_identifier and update_minimum_ios_version.                *)
(***************************************************************************)
BUNDLE_KEY == <<"P", "R", "O", "D", "U", "C", "T", "_", "B", "U", "N", "D", "L", "E", "_", "I", "D", "E", "N", "T", "I", "F", "I", "E", "R", " ", "=", " ", "\"">>
BUNDLE_END == <<"\"", ";">>

\* r'PRODUCT_BUNDLE_IDENTIFIER = "com\.example\.helloworldapp";'
old_bundle_pattern == BUNDLE_KEY \o <<"c", "o", "m", ".", "e", "x", "a", "m", "p", "l", "e", ".", "h", "e", "l", "l", "o", "w", "o", "r", "l", "d", "a", "p", "p">> \o BUNDLE_END

BundleMatchLen(s, i) == IF MatchAt(s, old_bundle_pattern, i) THEN Len(old_bundle_pattern) ELSE 0

\* The bundle line written with new_name as it is.
new_bundle_keeping_case(org, new) == BUNDLE_KEY \o org \o <<".">> \o new \o BUNDLE_END

\* f'PRODUCT_BUNDLE_IDENTIFIER = "{organization_identifier}.{new_name.lower()}";'
new_bundle(org, new) == BUNDLE_KEY \o org \o <<".">> \o Lower(new) \o BUNDLE_END

TARGET_KEY == <<"I", "P", "H", "O", "N", "E", "O", "S", "_", "D", "E", "P", "L", "O", "Y", "M", "E", "N", "T", "_", "T", "A", "R", "G", "E", "T", " ", "=", " ">>

RECURSIVE DigitRun(_, _)
DigitRun(s, i) == IF i <= Len(s) /\ s[i] \in RE_DIGITS THEN 1 + DigitRun(s, i + 1) ELSE 0

\* r'IPHONEOS_DEPLOYMENT_TARGET = \d+\.\d+;'
VersionMatchLen(s, i) ==
    IF ~MatchAt(s, TARGET_KEY, i) THEN 0
    ELSE LET j == i + Len(TARGET_KEY)
             d1 == DigitRun(s, j)
             k == j + d1 + 1
             d2 == DigitRun(s, k)
         IN  IF /\ d1 > 0
                /\ j + d1 <= Len(s) /\ s[j + d1] = "."
                /\ d2 > 0
                /\ k + d2 <= Len(s) /\ s[k + d2] = ";"
             THEN Len(TARGET_KEY) + d1 + 1 + d2 + 1
             ELSE 0

\* The length of the match of the named pattern starting at s[i], 0 for no match.
PatternMatchLen(pattern, s, i) ==
    CASE pattern = "bundle" -> BundleMatchLen(s, i)
      [] pattern = "version" -> VersionMatchLen(s, i)

\* re.sub(pattern, repl, content) for a pattern that matches no empty string:
\* leftmost non-overlapping matches, each replaced by repl.  The replacement
\* texts of the model hold no backslash, so repl is inserted as it is.
NextReMatch(s, pattern, i) ==
    LET hits == {j \in i..Len(s) : PatternMatchLen(pattern, s, j) > 0}
    IN  IF hits = {} THEN 0 ELSE CHOOSE j \in hits : \A k \in hits : j <= k

RECURSIVE ReSubFrom(_, _, _, _)
ReSubFrom(s, pattern, repl, i) ==
    LET j == NextReMatch(s, pattern, i)
    IN  IF j = 0 THEN SubSeq(s, i, Len(s))
        ELSE SubSeq(s, i, j - 1) \o repl
               \o ReSubFrom(s, pattern, repl, j + PatternMatchLen(pattern, s, j))

ReSub(s, pattern, repl) == ReSubFrom(s, pattern, repl, 1)

\* f'IPHONEOS_DEPLOYMENT_TARGET = {minimum_ios_version};'
new_version(ver) == TARGET_KEY \o ver \o <<";">>

\* update_bundle_identifier: read, re.sub, write back, none of it inside a
\* try: a failing open/read/write raises out of the function.
update_bundle_identifier(tree, new, org, fails) ==
    IF "pbx" \notin DOMAIN tree.desc THEN [fs |-> tree, raised |-> FALSE]
    ELSE IF fails THEN [fs |-> tree, raised |-> TRUE]
    ELSE [fs |-> [tree EXCEPT !.desc["pbx"] = ReSub(@, "bundle", new_bundle(org, new))],
          raised |-> FALSE]

\* update_minimum_ios_version: the same shape.
update_minimum_ios_version(tree, ver, fails) ==
    IF "pbx" \notin DOMAIN tree.desc THEN [fs |-> tree, raised |-> FALSE]
    ELSE IF fails THEN [fs |-> tree, raised |-> TRUE]
    ELSE [fs |-> [tree EXCEPT !.desc["pbx"] = ReSub(@, "version", new_version(ver))],
          raised |-> FALSE]

(***************************************************************************)
(* Values the variables hold while a specification does not use them.      *)
(***************************************************************************)
NoResult == [passed |-> TRUE, errors |-> <<>>, warnings |-> <<>>]
NoReport == [xcode |-> <<>>, swift |-> <<>>, sim |-> <<>>, pod |-> <<>>,
             brew |-> <<>>, mac |-> <<>>]
Tree(desc, hasDir, schemes, other, handoff) ==
    [desc |-> desc, hasDir |-> hasDir, schemes |-> schemes, other |-> other,
     handoff |-> handoff, requirements |-> FALSE]
EmptyTree == Tree(<<>>, FALSE, <<>>, <<>>, FALSE)
AllOK ==
    [xcode |-> Exited(0, <<"X", "c", "o", "d", "e", " ", "1", "5", ".", "0">>),
     swift |-> Exited(0, <<"s", "w", "i", "f", "t", "-", "d", "r", "i", "v", "e", "r", " ", "v", "e", "r", "s", "i", "o", "n", ":", " ", "1", ".", "7", "5", ".", "2">>),
     sim |-> TRUE,
     mac |-> Exited(0, <<"1", "4", ".", "1">>),
     brew |-> Exited(0, <<"H", "o", "m", "e", "b", "r", "e", "w", " ", "4", ".", "1", ".", "0">>),
     pod |-> Exited(0, <<"1", ".", "1", "2", ".", "0">>)]

NoValidation ==
    /\ context = <<>>
    /\ useFallback = FALSE
    /\ result = NoResult
    /\ validator = FreshValidator
    /\ returned = <<>>

NoProbe == report = NoReport

NoTransformation ==
    /\ old_name = <<>>
    /\ new_name = <<>>
    /\ fs = EmptyTree
    /\ fs0 = EmptyTree
    /\ fs1 = EmptyTree
    /\ runs = 0
    /\ faultLog = <<>>

NoMain ==
    /\ organization_identifier = <<>>
    /\ minimum_ios_version = <<>>
    /\ raised = FALSE
    /\ exitStatus = -1

(***************************************************************************)
(* SpecRename: rename_xcode_project_references called on any tree with any *)
(* old_name / new_name, then called again with the same arguments.         *)
(***************************************************************************)
Names == StringsOver(Alphabet, 1, MaxNameLen)
Contents == StringsOver(Alphabet, 0, MaxContentLen)
SchemeNames == {s \o e : s \in Names, e \in {XCSCHEME, <<".", "t", "x", "t">>}}

\* Trees exercising the descriptor files (no schemes directory) and trees
\* exercising the schemes directory (a scheme's content is the first character
\* of its filename followed by old_name, so every scheme content holds old_name).
DescTrees ==
    {Tree(d, FALSE, <<>>, <<>>, FALSE) :
        d \in {<<>>} \cup [{"pbx"} -> Contents] \cup [{"pbx", "ws"} -> Contents]}

SchemeTrees(old) ==
    {Tree(<<>>, TRUE, [n \in S |-> SubSeq(n, 1, 1) \o old], <<>>, FALSE) :
        S \in {T \in SUBSET SchemeNames : Cardinality(T) <= MaxFiles}}

InitRename ==
    /\ pc = "rename"
    /\ env = AllOK
    /\ NoValidation
    /\ NoProbe
    /\ NoMain
    /\ old_name \in Names
    /\ new_name \in {<<>>} \cup Names
    /\ fs \in DescTrees \cup SchemeTrees(old_name)
    /\ fs0 = fs
    /\ fs1 = fs
    /\ runs = 0
    /\ faultLog = <<>>

RenameRun ==
    /\ pc = "rename"
    /\ runs < 2
    /\ \E flt \in RenameFaults, order \in Orders(MatchingSchemes(fs, old_name)) :
         LET r == rename_xcode_project_references(fs, old_name, new_name, order, flt)
         IN  /\ fs' = r.fs
             /\ raised' = r.raised
             /\ faultLog' = Append(faultLog, flt)
             /\ fs1' = IF runs = 0 THEN r.fs ELSE fs1
    /\ runs' = runs + 1
    /\ UNCHANGED <<pc, context, env, useFallback, result, report, old_name, new_name,
                   organization_identifier, minimum_ios_version, fs0, exitStatus>>
    /\ UNCHANGED <<validator, returned>>

NextRename == RenameRun

SpecRename == InitRename /\ [][NextRename]_vars

(***************************************************************************)
(* SpecValidate: validate_template_inputs, and validate_environment on a   *)
(* new validator, for any context and any answers of the host.             *)
(***************************************************************************)
Missing == [present |-> FALSE, v |-> <<>>]
Opt(S) == {Missing} \cup {[present |-> TRUE, v |-> x] : x \in S}

\* The context holding the present ones of the given fields.
MakeContext(f) == [k \in {j \in DOMAIN f : f[j].present} |-> f[k].v]

\* The values each field of the context is drawn from.
FieldValues(field) ==
    CASE field = "project_name" -> {<<"A", "c", "m", "e">>, <<"a", "p", "p">>, <<"9", "x">>, <<>>}
      [] field = "organization_identifier" -> {<<"c", "o", "m", ".", "a", "c", "m", "e">>, <<"C", "o", "m", ".", "E", "x", "a", "m", "p", "l", "e">>}
      [] field = "minimum_ios_version" -> {<<"1", "6", ".", "0">>, <<"2", "0", ".", "1">>, <<"1", "5">>}
      [] field = "version_name" -> {<<"1", ".", "0", ".", "0">>, <<"1", ".", "0">>, <<>>}
      [] field = "use_swift_data" -> {<<"T", "r", "u", "e">>, <<"y", "e", "s">>}
      [] field = "author_email" -> {<<"a", "@", "b", ".", "c", "o">>, <<>>, <<"b", "a", "d">>}

AllContexts ==
    {MakeContext([project_name |-> pn, organization_identifier |-> org,
                  minimum_ios_version |-> ver, version_name |-> vn,
                  use_swift_data |-> sd, author_email |-> em]) :
        pn \in Opt(FieldValues("project_name")),
        org \in Opt(FieldValues("organization_identifier")),
        ver \in Opt(FieldValues("minimum_ios_version")),
        vn \in Opt(FieldValues("version_name")),
        sd \in Opt(FieldValues("use_swift_data")),
        em \in Opt(FieldValues("author_email"))}

GoodContext ==
    [project_name |-> <<"A", "c", "m", "e">>, organization_identifier |-> <<"c", "o", "m", ".", "a", "c", "m", "e">>,
     minimum_ios_version |-> <<"1", "6", ".", "0">>, version_name |-> <<"1", ".", "0", ".", "0">>,
     use_swift_data |-> <<"T", "r", "u", "e">>]

Without(ctx, k) == [j \in DOMAIN ctx \ {k} |-> ctx[j]]

RequiredKeys == {required_fields[i] : i \in 1..Len(required_fields)}

\* The good context, the good context less one required key, and the good
\* context with a good author_email.
CoreContexts ==
    {GoodContext} \cup {Without(GoodContext, k) : k \in RequiredKeys}
      \cup {[k \in DOMAIN GoodContext \cup {"author_email"} |->
                IF k = "author_email" THEN <<"a", "@", "b", ".", "c", "o">> ELSE GoodContext[k]]}

Outcomes(outs) ==
    {NotFound, TimedOut} \cup {Exited(rc, o) : rc \in {0, 1}, o \in outs}

\* What each probed command prints, by tool.
ToolOutputs(tool) ==
    CASE tool = "xcode" -> {<<>>, <<"X", "c", "o", "d", "e", " ", "1", "5", ".", "0", "\n", "B", "u", "i", "l", "d", " ", "v", "e", "r", "s", "i", "o", "n", " ", "1", "5", "A", "2", "4", "0", "d">>, <<"X", "c", "o", "d", "e", " ", "1", "4", ".", "2">>}
      [] tool = "swift" -> {<<>>, <<"s", "w", "i", "f", "t", "-", "d", "r", "i", "v", "e", "r", " ", "v", "e", "r", "s", "i", "o", "n", ":", " ", "1", ".", "7", "5", ".", "2", " ", "A", "p", "p", "l", "e", " ", "S", "w", "i", "f", "t", " ", "v", "e", "r", "s", "i", "o", "n", " ", "5", ".", "9">>}
      [] tool = "mac" -> {<<>>, <<"1", "4", ".", "1", "\n">>, <<"1", "2", ".", "6">>}
      [] tool = "brew" -> {<<>>, <<"H", "o", "m", "e", "b", "r", "e", "w", " ", "4", ".", "1", ".", "0">>}
      [] tool = "pod" -> {<<>>, <<"1", ".", "1", "2", ".", "0", "\n">>}

\* The validator does not run swift.
ValidatorEnvs ==
    {[xcode |-> x, swift |-> AllOK.swift, sim |-> s, mac |-> m, brew |-> b, pod |-> p] :
        x \in Outcomes(ToolOutputs("xcode")), s \in BOOLEAN, m \in Outcomes(ToolOutputs("mac")),
        b \in Outcomes(ToolOutputs("brew")), p \in Outcomes(ToolOutputs("pod"))}

CoreEnvs == {AllOK, [AllOK EXCEPT !.xcode = NotFound]}

InitValidate ==
    /\ pc = "validate_ready"
    /\ \/ context \in AllContexts /\ env \in CoreEnvs
       \/ context \in CoreContexts /\ env \in ValidatorEnvs
    /\ useFallback = FALSE
    /\ result = NoResult
    /\ NoProbe
    /\ NoTransformation
    /\ NoMain
    /\ validator = FreshValidator
    /\ returned = <<>>

CallValidateTemplateInputs ==
    /\ pc = "validate_ready"
    /\ result' = validate_template_inputs(context, env)
    /\ pc' = "validate_all_returned"
    /\ UNCHANGED <<context, env, useFallback, report, old_name, new_name,
                   organization_identifier, minimum_ios_version, fs, fs0, fs1, runs,
                   faultLog, raised, exitStatus>>
    /\ UNCHANGED <<validator, returned>>

CallValidateEnvironment ==
    /\ pc = "validate_ready"
    /\ LET v == validate_environment(FreshValidator, env)
       IN  result' = [passed |-> Passed(v), errors |-> v.errors, warnings |-> v.warnings]
    /\ pc' = "validate_environment_returned"
    /\ UNCHANGED <<context, env, useFallback, report, old_name, new_name,
                   organization_identifier, minimum_ios_version, fs, fs0, fs1, runs,
                   faultLog, raised, exitStatus>>
    /\ UNCHANGED <<validator, returned>>

NextValidate == CallValidateTemplateInputs \/ CallValidateEnvironment

SpecValidate == InitValidate /\ [][NextValidate]_vars

(***************************************************************************)
(* SpecVersion: validate_ios_version on a new validator, for any string.   *)
(***************************************************************************)
VersionAlphabet == {"1", "3", "9", ".", "\n", "ARABIC3"}
VersionStrings == StringsOver(VersionAlphabet, 0, MaxVersionLen)

InitVersion ==
    /\ pc = "version_ready"
    /\ minimum_ios_version \in VersionStrings
    /\ env = AllOK
    /\ NoValidation
    /\ NoProbe
    /\ NoTransformation
    /\ organization_identifier = <<>>
    /\ raised = FALSE
    /\ exitStatus = -1

\* validator = iOSTemplateValidator(); ok = validator.validate_ios_version(v);
\* result holds ok and the validator's two lists.
CallValidateIosVersion ==
    /\ pc = "version_ready"
    /\ LET v == validate_ios_version(minimum_ios_version)
       IN  result' = [passed |-> v.ok, errors |-> v.errors, warnings |-> v.warnings]
    /\ pc' = "validate_ios_version_returned"
    /\ UNCHANGED <<context, env, useFallback, report, old_name, new_name,
                   organization_identifier, minimum_ios_version, fs, fs0, fs1, runs,
                   faultLog, raised, exitStatus>>
    /\ UNCHANGED <<validator, returned>>

NextVersion == CallValidateIosVersion

SpecVersion == InitVersion /\ [][NextVersion]_vars

(***************************************************************************)
(* SpecReuse: validation runs in a row, through validate_template_inputs   *)
(* (a new validator per call) or through validate_all on one validator.    *)
(* validate_all returns self.errors and self.warnings themselves, so every *)
(* triple that validator returned reads the lists the validator holds now. *)
(***************************************************************************)
InitReuse ==
    /\ pc = "reuse_ready"
    /\ env \in CoreEnvs
    /\ NoValidation
    /\ NoProbe
    /\ NoTransformation
    /\ NoMain

\* validator.validate_all(ctx) on the one validator of the run.
ReuseCallValidateAll ==
    /\ pc = "reuse_ready"
    /\ Len(returned) < MaxRuns
    /\ \E ctx \in CoreContexts :
         LET r == validate_all(validator, ctx, env)
         IN  /\ result' = r
             /\ validator' = [errors |-> r.errors, warnings |-> r.warnings]
             /\ returned' =
                   Append([i \in 1..Len(returned) |->
                              IF returned[i].shared
                              THEN [returned[i] EXCEPT !.errors = r.errors,
                                                       !.warnings = r.warnings]
                              ELSE returned[i]],
                          [ctx |-> ctx, shared |-> TRUE, passed |-> r.passed,
                           errors |-> r.errors, warnings |-> r.warnings])
    /\ UNCHANGED <<pc, context, env, useFallback, report, old_name, new_name,
                   organization_identifier, minimum_ios_version, fs, fs0, fs1, runs,
                   faultLog, raised, exitStatus>>

\* validate_template_inputs(ctx): its validator is new and is dropped on return.
ReuseCallValidateTemplateInputs ==
    /\ pc = "reuse_ready"
    /\ Len(returned) < MaxRuns
    /\ \E ctx \in CoreContexts :
         LET r == validate_template_inputs(ctx, env)
         IN  /\ result' = r
             /\ returned' = Append(returned,
                                   [ctx |-> ctx, shared |-> FALSE, passed |-> r.passed,
                                    errors |-> r.errors, warnings |-> r.warnings])
    /\ UNCHANGED <<pc, context, env, useFallback, report, old_name, new_name,
                   organization_identifier, minimum_ios_version, fs, fs0, fs1, runs,
                   faultLog, raised, exitStatus, validator>>

NextReuse == ReuseCallValidateAll \/ ReuseCallValidateTemplateInputs

SpecReuse == InitReuse /\ [][NextReuse]_vars

(***************************************************************************)
(* SpecProbe: generate_requirements_md's detection for any answers of the  *)
(* host.                                                                   *)
(***************************************************************************)
ProbeEnvs ==
    {[xcode |-> x, swift |-> w, sim |-> s, mac |-> m, brew |-> b, pod |-> p] :
        x \in Outcomes(ToolOutputs("xcode")), w \in Outcomes(ToolOutputs("swift")), s \in BOOLEAN,
        m \in Outcomes(ToolOutputs("mac")), b \in Outcomes(ToolOutputs("brew")),
        p \in Outcomes(ToolOutputs("pod"))}

InitProbe ==
    /\ pc = "probe_ready"
    /\ env \in ProbeEnvs
    /\ NoValidation
    /\ report = NoReport
    /\ NoTransformation
    /\ NoMain

GenerateRequirements ==
    /\ pc = "probe_ready"
    /\ report' = DetectAll(env)
    /\ pc' = "probe_done"
    /\ UNCHANGED <<context, env, useFallback, result, old_name, new_name,
                   organization_identifier, minimum_ios_version, fs, fs0, fs1, runs,
                   faultLog, raised, exitStatus>>
    /\ UNCHANGED <<validator, returned>>

NextProbe == GenerateRequirements

SpecProbe == InitProbe /\ [][NextProbe]_vars

(***************************************************************************)
(* Spec: main() of post_gen_project.py, step by step.                      *)
(***************************************************************************)
OLD_NAME == <<"H", "e", "l", "l", "o", "W", "o", "r", "l", "d", "A", "p", "p">>
FALLBACK_ORG == <<"c", "o", "m", ".", "e", "x", "a", "m", "p", "l", "e">>
FALLBACK_VERSION == <<"1", "5", ".", "0">>

\* The keys main reads with context[...] right after json.load.
SubscriptedKeys ==
    {"project_name", "app_name", "organization_identifier", "minimum_ios_version"}

\* Lines of project.pbxproj.
PbxLines ==
    {old_bundle_pattern,
     <<"I", "P", "H", "O", "N", "E", "O", "S", "_", "D", "E", "P", "L", "O", "Y", "M", "E", "N", "T", "_", "T", "A", "R", "G", "E", "T", " ", "=", " ", "1", "5", ".", "0", ";">>,
     <<"I", "P", "H", "O", "N", "E", "O", "S", "_", "D", "E", "P", "L", "O", "Y", "M", "E", "N", "T", "_", "T", "A", "R", "G", "E", "T", " ", "=", " ", "1", "5", ";">>,
     <<"P", "R", "O", "D", "U", "C", "T", "_", "N", "A", "M", "E", " ", "=", " ", "H", "e", "l", "l", "o", "W", "o", "r", "l", "d", "A", "p", "p", ";">>}

RECURSIVE JoinLines(_)
JoinLines(ls) ==
    IF ls = <<>> THEN <<>>
    ELSE IF Len(ls) = 1 THEN ls[1]
    ELSE ls[1] \o <<"\n">> \o JoinLines(Tail(ls))

PbxContents == {JoinLines(ls) : ls \in StringsOver(PbxLines, 0, MaxLines)}

WS_CONTENT == <<"l", "o", "c", "a", "t", "i", "o", "n", " ", "=", " ", "\"", "s", "e", "l", "f", ":", "H", "e", "l", "l", "o", "W", "o", "r", "l", "d", "A", "p", "p", ".", "x", "c", "o", "d", "e", "p", "r", "o", "j", "\"">>
SCHEME_CONTENT == <<"B", "u", "i", "l", "d", "a", "b", "l", "e", "N", "a", "m", "e", " ", "=", " ", "\"", "H", "e", "l", "l", "o", "W", "o", "r", "l", "d", "A", "p", "p", ".", "a", "p", "p", "\"">>
MainSchemeNames ==
    {OLD_NAME \o XCSCHEME, OLD_NAME \o <<"T", "e", "s", "t", "s">> \o XCSCHEME,
     <<"O", "t", "h", "e", "r">> \o XCSCHEME}
OTHER_FILE == <<"H", "e", "l", "l", "o", "W", "o", "r", "l", "d", "A", "p", "p", "/", "I", "n", "f", "o", ".", "p", "l", "i", "s", "t">>

MainTrees ==
    {Tree(d, dir, [n \in S |-> SCHEME_CONTENT], o, h) :
        d \in {<<>>} \cup [{"pbx"} -> PbxContents]
                \cup {[k \in {"pbx", "ws"} |-> IF k = "pbx" THEN c ELSE WS_CONTENT] :
                         c \in PbxContents},
        dir \in {TRUE},
        S \in {T \in SUBSET MainSchemeNames : Cardinality(T) <= MaxFiles},
        o \in {<<>>, [n \in {OTHER_FILE} |-> OLD_NAME]},
        h \in {TRUE}}

\* A template tree with every kind of file, with and without the handoff file.
FullTree(h) ==
    Tree([k \in {"pbx", "ws"} |->
             IF k = "pbx" THEN JoinLines(<<old_bundle_pattern,
                                           <<"I", "P", "H", "O", "N", "E", "O", "S", "_", "D", "E", "P", "L", "O", "Y", "M", "E", "N", "T", "_", "T", "A", "R", "G", "E", "T", " ", "=", " ", "1", "5", ".", "0", ";">>,
                                           <<"P", "R", "O", "D", "U", "C", "T", "_", "N", "A", "M", "E", " ", "=", " ", "H", "e", "l", "l", "o", "W", "o", "r", "l", "d", "A", "p", "p", ";">>>>)
             ELSE WS_CONTENT],
         TRUE, [n \in {OLD_NAME \o XCSCHEME} |-> SCHEME_CONTENT], <<>>, h)

CoreTrees == {FullTree(TRUE), FullTree(FALSE),
              Tree(<<>>, FALSE, <<>>, <<>>, TRUE)}

\* The values main's three transformer inputs are drawn from.
MainFieldValues(field) ==
    CASE field = "project_name" -> {<<"A", "c", "m", "e">>, <<"M", "y", "H", "e", "l", "l", "o", "W", "o", "r", "l", "d", "A", "p", "p">>, <<"9", "x">>}
      [] field = "organization_identifier" -> {<<"c", "o", "m", ".", "a", "c", "m", "e">>, <<"C", "o", "m", ".", "E", "x", "a", "m", "p", "l", "e">>}
      [] field = "minimum_ios_version" -> {<<"1", "6", ".", "0">>, <<"1", "5">>}

MainContexts ==
    {MakeContext([project_name |-> pn, app_name |-> an, organization_identifier |-> org,
                  minimum_ios_version |-> ver, version_name |-> vn,
                  use_swift_data |-> [present |-> TRUE, v |-> <<"t", "r", "u", "e">>]]) :
        pn \in Opt(MainFieldValues("project_name")), an \in Opt({<<"A", "c", "m", "e">>}),
        org \in {[present |-> TRUE, v |-> x] : x \in MainFieldValues("organization_identifier")},
        ver \in {[present |-> TRUE, v |-> x] : x \in MainFieldValues("minimum_ios_version")},
        vn \in Opt({<<"1", ".", "0", ".", "0">>})}

MainContext(pn) ==
    [project_name |-> pn, app_name |-> pn, organization_identifier |-> <<"c", "o", "m", ".", "a", "c", "m", "e">>,
     minimum_ios_version |-> <<"1", "6", ".", "0">>, version_name |-> <<"1", ".", "0", ".", "0">>,
     use_swift_data |-> <<"t", "r", "u", "e">>]

CoreMainContexts == {MainContext(<<"A", "c", "m", "e">>), MainContext(<<"M", "y", "H", "e", "l", "l", "o", "W", "o", "r", "l", "d", "A", "p", "p">>)}

\* os.path.basename(project_dir) when there is no handoff file.
DirNames == {<<"A", "c", "m", "e">>}

Init ==
    /\ pc = "load"
    /\ \/ context \in MainContexts /\ fs \in CoreTrees /\ env \in CoreEnvs
       \/ context \in CoreMainContexts /\ fs \in MainTrees /\ env = AllOK
    /\ useFallback \in BOOLEAN
    /\ result = NoResult
    /\ NoProbe
    /\ old_name = OLD_NAME
    /\ new_name = <<>>
    /\ fs0 = fs
    /\ fs1 = fs
    /\ runs = 0
    /\ faultLog = <<>>
    /\ NoMain
    /\ validator = FreshValidator
    /\ returned = <<>>

\* Lines 141-157 and 171-177: the handoff file is loaded and four keys are read
\* with context[...] (a missing one raises KeyError, which nothing catches), or
\* there is no handoff file and the fallback values are used.
LoadContext ==
    /\ pc = "load"
    /\ IF fs.handoff
       THEN IF SubscriptedKeys \subseteq DOMAIN context
            THEN /\ new_name' = context["project_name"]
                 /\ organization_identifier' = context["organization_identifier"]
                 /\ minimum_ios_version' = context["minimum_ios_version"]
                 /\ pc' = "validate"
                 /\ UNCHANGED <<raised, exitStatus, context>>
            ELSE /\ pc' = "crashed"
                 /\ raised' = TRUE
                 /\ exitStatus' = 1
                 /\ UNCHANGED <<new_name, organization_identifier, minimum_ios_version,
                                context>>
       ELSE /\ \E d \in DirNames : new_name' = d
            /\ organization_identifier' = FALLBACK_ORG
            /\ minimum_ios_version' = FALLBACK_VERSION
            /\ context' = <<>>
            /\ pc' = "step1"
            /\ UNCHANGED <<raised, exitStatus>>
    /\ UNCHANGED <<env, useFallback, result, report, old_name, fs, fs0, fs1, runs,
                   faultLog>>
    /\ UNCHANGED <<validator, returned>>

\* Line 159 with the check left out: main goes on whatever is_valid is.
never_exits(is_valid) == FALSE

\* Line 159: `if not is_valid:` guards sys.exit(1).
exits_on_invalid(is_valid) == ~is_valid

\* Lines 157-169: validate_template_inputs(context), then sys.exit(1) when it
\* does not return is_valid.
ValidateInputs ==
    /\ pc = "validate"
    /\ LET r == IF useFallback THEN fallback_validate_template_inputs(context)
                ELSE validate_template_inputs(context, env)
       IN  /\ result' = r
           /\ IF exits_on_invalid(r.passed)
              THEN pc' = "exited" /\ exitStatus' = 1
              ELSE pc' = "step1" /\ UNCHANGED exitStatus
    /\ UNCHANGED <<context, env, useFallback, report, old_name, new_name,
                   organization_identifier, minimum_ios_version, fs, fs0, fs1, runs,
                   faultLog, raised>>
    /\ UNCHANGED <<validator, returned>>

\* What an exception leaving a step does to main: nothing catches it.
AfterStep(r, nextPc) ==
    /\ fs' = r.fs
    /\ raised' = r.raised
    /\ IF r.raised THEN pc' = "crashed" /\ exitStatus' = 1
       ELSE pc' = nextPc /\ UNCHANGED exitStatus

\* Lines 185-190.
Step1Rename ==
    /\ pc = "step1"
    /\ \E flt \in RenameFaults, order \in Orders(MatchingSchemes(fs, old_name)) :
         LET r == rename_xcode_project_references(fs, old_name, new_name, order, flt)
         IN  /\ AfterStep(r, "step2")
             /\ fs1' = r.fs
             /\ faultLog' = Append(faultLog, flt)
    /\ runs' = runs + 1
    /\ UNCHANGED <<context, env, useFallback, result, report, old_name, new_name,
                   organization_identifier, minimum_ios_version, fs0>>
    /\ UNCHANGED <<validator, returned>>

\* The faults the environment can inject into a later step: none, or the
\* step's file operation failing.
StepFaults(op) == {NoFault, [op |-> op, k |-> 0]}

\* Lines 192-194.
Step2Bundle ==
    /\ pc = "step2"
    /\ \E flt \in StepFaults("bundle_io") :
         /\ AfterStep(update_bundle_identifier(fs, new_name, organization_identifier,
                                               flt # NoFault), "step3")
         /\ faultLog' = Append(faultLog, flt)
    /\ UNCHANGED <<context, env, useFallback, result, report, old_name, new_name,
                   organization_identifier, minimum_ios_version, fs0, fs1, runs>>
    /\ UNCHANGED <<validator, returned>>

\* Lines 196-198.
Step3Version ==
    /\ pc = "step3"
    /\ \E flt \in StepFaults("version_io") :
         /\ AfterStep(update_minimum_ios_version(fs, minimum_ios_version, flt # NoFault),
                      "step4")
         /\ faultLog' = Append(faultLog, flt)
    /\ UNCHANGED <<context, env, useFallback, result, report, old_name, new_name,
                   organization_identifier, minimum_ios_version, fs0, fs1, runs>>
    /\ UNCHANGED <<validator, returned>>

\* Lines 200-214: the report is generated and written inside try/except
\* Exception, so a failure is printed and main goes on.
Step4Requirements ==
    /\ pc = "step4"
    /\ \E flt \in StepFaults("requirements_io") :
         /\ IF flt = NoFault
            THEN report' = DetectAll(env) /\ fs' = [fs EXCEPT !.requirements = TRUE]
            ELSE UNCHANGED <<report, fs>>
         /\ faultLog' = Append(faultLog, flt)
    /\ pc' = "cleanup"
    /\ UNCHANGED <<context, env, useFallback, result, old_name, new_name,
                   organization_identifier, minimum_ios_version, fs0, fs1, runs,
                   raised, exitStatus>>
    /\ UNCHANGED <<validator, returned>>

\* A cleanup that leaves the handoff file where it is.
cleanup_keeping_handoff(tree, fails) == [fs |-> tree, raised |-> FALSE]

\* cleanup_temp_files: unlink the handoff file when it exists; a failing unlink
\* raises out of main.
cleanup_temp_files(tree, fails) ==
    IF ~tree.handoff THEN [fs |-> tree, raised |-> FALSE]
    ELSE IF fails THEN [fs |-> tree, raised |-> TRUE]
    ELSE [fs |-> [tree EXCEPT !.handoff = FALSE], raised |-> FALSE]

\* Lines 216-245.
Cleanup ==
    /\ pc = "cleanup"
    /\ \E flt \in StepFaults("unlink") :
         LET r == cleanup_temp_files(fs, flt # NoFault)
         IN  /\ fs' = r.fs
             /\ raised' = r.raised
             /\ IF r.raised THEN pc' = "crashed" /\ exitStatus' = 1
                ELSE pc' = "done" /\ exitStatus' = 0
             /\ faultLog' = Append(faultLog, flt)
    /\ UNCHANGED <<context, env, useFallback, result, report, old_name, new_name,
                   organization_identifier, minimum_ios_version, fs0, fs1, runs>>
    /\ UNCHANGED <<validator, returned>>

Next ==
    \/ LoadContext
    \/ ValidateInputs
    \/ Step1Rename
    \/ Step2Bundle
    \/ Step3Version
    \/ Step4Requirements
    \/ Cleanup

Spec == Init /\ [][Next]_vars

FaultFree == \A i \in 1..Len(faultLog) : faultLog[i] = NoFault

(***************************************************************************)
(* C1: a failed validation ends the run before the tree is touched.        *)
(***************************************************************************)
\* C1: whenever validate_template_inputs returned a non-empty error list, main
\* has exited with status 1 and the tree is the tree it started with; the
\* fallback validator never returns an error, so the implication holds for it
\* too.
C1_InvalidExitsUntouched ==
    result.errors # <<>> => pc = "exited" /\ exitStatus = 1 /\ fs = fs0

\* The real validator rejected the context of a tree that holds every kind of
\* file.
C1_Witness ==
    /\ pc = "exited"
    /\ ~useFallback
    /\ result.errors # <<>>
    /\ DOMAIN fs0.desc = {"pbx", "ws"}
    /\ DOMAIN fs0.schemes # {}
    /\ exitStatus = 1
    /\ fs = fs0

(***************************************************************************)
(* C2: no placeholder name is left after the transformation.               *)
(***************************************************************************)
\* No file content and no filename of the tree holds the name.
PlaceholderFree(tree, name) ==
    /\ \A p \in DOMAIN tree.desc : ~Contains(tree.desc[p], name)
    /\ \A n \in DOMAIN tree.schemes :
          ~Contains(n, name) /\ ~Contains(tree.schemes[n], name)
    /\ \A p \in DOMAIN tree.other :
          ~Contains(p, name) /\ ~Contains(tree.other[p], name)

\* The three transformer steps have run and none raised.
Transformed == pc \in {"step4", "cleanup", "done"}

\* C2 as claimed: once the three transformer steps have run, no file content and
\* no filename anywhere in the tree holds the placeholder name.
C2_NoPlaceholderLeft == Transformed => PlaceholderFree(fs, old_name)

(***************************************************************************)
(* C3: reference rename is idempotent.                                     *)
(***************************************************************************)
\* No match of old is left for a further run: no descriptor content holds it and
\* no filename of the schemes directory matches old*.xcscheme.
NoMatchLeft(tree, old) ==
    /\ \A p \in DOMAIN tree.desc : ~Contains(tree.desc[p], old)
    /\ \A n \in DOMAIN tree.schemes :
          ~(StartsWith(n, old) /\ EndsWith(n, XCSCHEME))

Lines(content) ==
    LET nl == {i \in 1..Len(content) : content[i] = "\n"}
        \* the k-th newline's position
        Newline(k) == CHOOSE i \in nl : Cardinality({j \in nl : j < i}) = k - 1
        n == Cardinality(nl) + 1
    IN  [k \in 1..n |->
            SubSeq(content,
                   IF k = 1 THEN 1 ELSE Newline(k - 1) + 1,
                   IF k = n THEN Len(content) ELSE Newline(k) - 1)]

\* The three values main hands to the transformer pass the validator's rules.
ValidatedInputs ==
    /\ validate_project_name(new_name).errors = <<>>
    /\ validate_organization_identifier(organization_identifier).errors = <<>>
    /\ validate_ios_version(minimum_ios_version).errors = <<>>

\* A whole line of shape IPHONEOS_DEPLOYMENT_TARGET = <digits>.<digits>;
IsTargetAssignment(line) == line # <<>> /\ VersionMatchLen(line, 1) = Len(line)

\* C4: with validated values, once step 3 has returned, project.pbxproj has the
\* lines it started with, every line that was the placeholder bundle assignment
\* is the assignment of organization_identifier "." lower-cased new_name, and
\* every line that was a <digits>.<digits> deployment-target assignment is the
\* assignment of minimum_ios_version, whatever step 1 rewrote or failed to
\* rewrite in the file.
C4_DescriptorMatchesContext ==
    (Transformed /\ "pbx" \in DOMAIN fs0.desc /\ ValidatedInputs)
        => LET before == Lines(fs0.desc["pbx"])
               after == Lines(fs.desc["pbx"])
           IN  /\ Len(after) = Len(before)
               /\ \A i \in 1..Len(before) :
                     /\ before[i] = old_bundle_pattern
                           => after[i] = BUNDLE_KEY \o organization_identifier \o <<".">>
                                           \o Lower(new_name) \o BUNDLE_END
                     /\ IsTargetAssignment(before[i])
                           => after[i] = TARGET_KEY \o minimum_ios_version \o <<";">>

\* A validated context with an upper-case letter in the name, a descriptor with
\* a placeholder bundle line and a deployment-target line, and a finished run.
C4_Witness ==
    /\ pc = "done"
    /\ ~useFallback
    /\ result.passed
    /\ ValidatedInputs
    /\ new_name # Lower(new_name)
    /\ "pbx" \in DOMAIN fs0.desc
    /\ \E i, j \in 1..Len(Lines(fs0.desc["pbx"])) :
          /\ Lines(fs0.desc["pbx"])[i] = old_bundle_pattern
          /\ IsTargetAssignment(Lines(fs0.desc["pbx"])[j])
    /\ fs.desc["pbx"] # fs0.desc["pbx"]

(***************************************************************************)
(* C5: scheme file rename.                                                 *)
(***************************************************************************)
\* What the claim states of the tree `after` a run on the tree `before`.
SchemesRenamed(before, after, old, new) ==
    /\ \A f \in MatchingSchemes(before, old) :
          LET g == StrReplace(f, old, new)
          IN  /\ g \in DOMAIN after.schemes
              /\ f \notin DOMAIN after.schemes
              /\ ~Contains(after.schemes[g], old)
    /\ \A n \in DOMAIN before.schemes \ MatchingSchemes(before, old) :
          n \in DOMAIN after.schemes

\* The substituted filenames do not match old*.xcscheme again and the
\* substituted contents hold no old.
SubstitutionClean(before, old, new) ==
    \A f \in MatchingSchemes(before, old) :
        /\ ~StartsWith(StrReplace(f, old, new), old)
        /\ ~Contains(StrReplace(before.schemes[f], old, new), old)

MissingKeys(ctx) == RequiredKeys \ DOMAIN ctx

\* Every present field passes its own rule with no error.
PresentFieldsWellFormed(ctx) ==
    /\ \A k \in RequiredKeys \cap DOMAIN ctx : FieldValidator(k, ctx[k]).errors = <<>>
    /\ "author_email" \in DOMAIN ctx => validate_email(ctx["author_email"]).errors = <<>>

OneKeyMissing(ctx) ==
    Cardinality(MissingKeys(ctx)) = 1 /\ PresentFieldsWellFormed(ctx)

TheMissingKey(ctx) == CHOOSE k \in MissingKeys(ctx) : TRUE

XcodeErrors == {"Xcode is not installed", "Xcode is not properly installed"}

\* C6 as claimed: whatever the probe finds, the result is failed with exactly
\* one error, the one naming the missing key.
C6_Original ==
    (pc = "validate_all_returned" /\ OneKeyMissing(context))
        => /\ result.passed = FALSE
           /\ result.errors = <<MissingMessage(TheMissingKey(context))>>

\* C6 amended: the result is failed and its first error names the missing key;
\* it is the only error exactly when the xcodebuild probe exits with status 0,
\* and is followed by one Xcode error when that probe is missing, times out or
\* exits non-zero.
C6_OneErrorNamesKey ==
    (pc = "validate_all_returned" /\ OneKeyMissing(context))
        => /\ result.passed = FALSE
           /\ result.errors[1] = MissingMessage(TheMissingKey(context))
           /\ ~Faulted(env.xcode) => Len(result.errors) = 1
           /\ Faulted(env.xcode) =>
                 Len(result.errors) = 2 /\ result.errors[2] \in XcodeErrors

\* version_name is missing, the toolchain answers, and brew and pod do not.
C6_Witness ==
    /\ pc = "validate_all_returned"
    /\ OneKeyMissing(context)
    /\ TheMissingKey(context) = "version_name"
    /\ ~Faulted(env.xcode)
    /\ Faulted(env.brew)
    /\ Faulted(env.pod)
    /\ result.errors = <<"Required field 'version_name' is missing">>

(***************************************************************************)
(* C7: passed is true exactly when the returned errors are empty.          *)
(***************************************************************************)
\* C7: for every context and every answer of the host, validate_all returns
\* passed = TRUE exactly when it returns no error, whatever the warnings.
C7_PassedIffNoErrors ==
    pc = "validate_all_returned" => (result.passed <=> result.errors = <<>>)

\* A run that found warnings only, and passed.
C7_Witness ==
    /\ pc = "validate_all_returned"
    /\ result.errors = <<>>
    /\ Len(result.warnings) >= 2
    /\ result.passed

(***************************************************************************)
(* C8: only the primary toolchain blocks.                                  *)
(***************************************************************************)
\* The probed items other than the toolchain that are absent or failed, and the
\* items found but older than recommended.
OtherItemsFailed(e) ==
    {t \in {"mac", "brew", "pod"} : Faulted(e[t])} \cup (IF e.sim THEN {} ELSE {"sim"})

\* The versioned items that answered: each may be older than recommended, which
\* is one warning.
VersionedItemsFound(e) == {t \in {"xcode", "mac"} : ~Faulted(e[t])}

\* C8: in validate_environment a missing, timed-out or failing xcodebuild always
\* adds exactly one (blocking) error, nothing else ever adds an error, and every
\* other absent or failed item adds one warning (the only further warnings are
\* "older than recommended", at most one per versioned item that answered).
C8_OnlyToolchainBlocks ==
    pc = "validate_environment_returned"
        => /\ Faulted(env.xcode) =>
                 /\ Len(result.errors) = 1
                 /\ result.errors[1] \in XcodeErrors
                 /\ ~result.passed
           /\ ~Faulted(env.xcode) => result.errors = <<>> /\ result.passed
           /\ Len(result.warnings) >= Cardinality(OtherItemsFailed(env))
           /\ Len(result.warnings) <= Cardinality(OtherItemsFailed(env))
                                         + Cardinality(VersionedItemsFound(env))

\* The toolchain and every other item are absent or failing.
C8_Witness ==
    /\ pc = "validate_environment_returned"
    /\ env.xcode.kind = "exit" /\ env.xcode.rc # 0
    /\ env.mac.kind = "timeout"
    /\ env.brew.kind = "notfound"
    /\ env.pod.kind = "exit" /\ env.pod.rc # 0
    /\ ~env.sim
    /\ Len(result.errors) = 1
    /\ Len(result.warnings) = 4

(***************************************************************************)
(* C9: a faulted probe command reads as "not detected".                    *)
(***************************************************************************)
\* The sentinel each detect_* function returns for "nothing detected".
Sentinel(tool) ==
    CASE tool \in {"xcode", "swift", "mac"} -> NOT_DETECTED
      [] tool \in {"pod", "brew"} -> NOT_INSTALLED

CommandTools == {"xcode", "swift", "pod", "brew", "mac"}

\* C9 as claimed: for any combination of outcomes, the report entry of every
\* tool whose command is missing, timed out or exited non-zero is its sentinel.
C9_FaultIsNotDetected ==
    pc = "probe_done"
        => \A t \in CommandTools : Faulted(env[t]) => report[t] = Sentinel(t)

(***************************************************************************)
(* C10: a transformation I/O fault stays inside its step.                  *)
(***************************************************************************)
\* C10 as claimed: an I/O fault met by one of the three transformer steps
\* (faultLog[1] is step 1's, faultLog[2] step 2's, faultLog[3] step 3's) never
\* ends the run in that step.
C10_FaultStaysInStep ==
    \A i \in 1..Len(faultLog) :
        (i <= 3 /\ faultLog[i] # NoFault) => ~(pc = "crashed" /\ Len(faultLog) = i)

(***************************************************************************)
(* C11: the handoff file's lifecycle.                                      *)
(***************************************************************************)
\* C11: a run that reaches completion ends with no handoff file, and a handoff
\* file that was there at the start is gone only once the run is complete, after
\* step 1 ran once and steps 1-4 and the cleanup were all attempted (each
\* appends one entry to faultLog).
C11_HandoffRemovedAtEnd ==
    /\ pc = "done" => ~fs.handoff
    /\ (fs0.handoff /\ ~fs.handoff)
          => pc = "done" /\ runs = 1 /\ Len(faultLog) = 5

\* A context the real validator passed, a run of all steps, the file removed.
C11_Witness ==
    /\ pc = "done"
    /\ fs0.handoff
    /\ ~useFallback
    /\ result.passed
    /\ DOMAIN fs0.desc = {"pbx", "ws"}
    /\ fs.requirements
    /\ ~fs.handoff

(***************************************************************************)
(* C12: app_name, author_name and author_email are optional.               *)
(***************************************************************************)
\* C12 as claimed: when the handoff context holds every required key with a
\* well-formed value, whichever optional keys it omits, main loads it and no
\* exception is raised before the transformer runs.
C12_OptionalKeysMayBeOmitted ==
    (/\ fs0.handoff
     /\ pc # "load"
     /\ faultLog = <<>>
     /\ RequiredKeys \subseteq DOMAIN context
     /\ PresentFieldsWellFormed(context))
        => ~raised

(***************************************************************************)
(* C13: the minimum-version rule.                                          *)
(***************************************************************************)
\* The position of the dot of a string of the shape <integer>.<integer> (one or
\* more decimal digits, a dot, one or more decimal digits and nothing else), 0
\* for any other string.
IntDotIntAt(s) ==
    LET dots == {i \in 2..(Len(s) - 1) :
                    /\ s[i] = "."
                    /\ AllIn(SubSeq(s, 1, i - 1), RE_DIGITS)
                    /\ AllIn(SubSeq(s, i + 1, Len(s)), RE_DIGITS)}
    IN  IF dots = {} THEN 0 ELSE CHOOSE i \in dots : TRUE

MajorOf(s) == DigitsToInt(SubSeq(s, 1, IntDotIntAt(s) - 1), 0)

\* C13 as claimed: validate_ios_version returns valid with no error exactly for
\* the strings of the shape <integer>.<integer>, warns exactly when such a
\* string's major number is below 13 or above 18, and returns invalid with an
\* error for every other string.
C13_ExactlyIntDotInt ==
    pc = "validate_ios_version_returned"
        => LET v == minimum_ios_version
               shaped == IntDotIntAt(v) # 0
           IN  /\ result.passed <=> shaped
               /\ result.errors = <<>> <=> shaped
               /\ shaped => (result.warnings # <<>>
                                <=> (MajorOf(v) < MinMajor \/ MajorOf(v) > MaxMajor))
               /\ ~shaped => result.warnings = <<>>

(***************************************************************************)
(* C14: a validation result holds the findings of its own run only.        *)
(***************************************************************************)
\* C14 as claimed: after any sequence of validation runs, the errors and
\* warnings of every triple returned so far are, as they read now, exactly the
\* findings of the run that returned it (what a new validator finds for that
\* run's context on this host).
C14_FreshPerRun ==
    \A i \in 1..Len(returned) :
        LET own == validate_all(FreshValidator, returned[i].ctx, env)
        IN  /\ returned[i].errors = own.errors
            /\ returned[i].warnings = own.warnings

(***************************************************************************)
(* C15: the scheme rename loses no file.                                   *)
(***************************************************************************)
\* C15 as claimed: for every schemes directory, old_name and new_name, the
\* directory holds as many files after the first run as before it.
C15_NoSchemeLost ==
    runs >= 1 => Cardinality(DOMAIN fs1.schemes) = Cardinality(DOMAIN fs0.schemes)

=============================================================================
